---------------------------- MODULE Spec2Model ----------------------------
(***************************************************************************)
(* Model of app1.py: the /analyze request handler of the medical report    *)
(* assistant, with its helpers cleanup_old_files, optimize_image,          *)
(* get_ocr_text and generate_pdf.                                          *)
(*                                                                         *)
(* Time is counted in clock ticks, TicksPerSec ticks to the second, so     *)
(* that int(time.time()) is a real truncation and two different instants   *)
(* can fall into the same second.  Strings whose content matters are       *)
(* sequences of one-character strings (OCR text) or of tokens (messages).  *)
(* A file name is the record [prefix, ts, base] of the three parts the     *)
(* code formats it from.                                                   *)
(***************************************************************************)
EXTENDS Integers, Sequences, FiniteSets, TLC

VARIABLES
    now,            \* time.time(), in ticks
    fs,             \* fs[folder]: the set of files of UPLOAD_FOLDER / OUTPUT_FOLDER
    pc,             \* pc[r]: where request r stands in analyze()
    input,          \* input[r]: the multipart form request r carries
    filepath,       \* analyze's local filepath (the saved upload's name)
    final_path,     \* analyze's local final_path
    raw_text,       \* analyze's local raw_text
    analysis_text,  \* analyze's local analysis_text
    pdf_filename,   \* analyze's local pdf_filename
    response,       \* response[r]: what request r was answered with
    trace,          \* history: the steps request r has entered, in order
    failed,         \* history: the step of request r that raised and the exception's message
    sweep_failed,   \* history: whether request r's housekeeping sweep raised
    probe           \* the call record of the single-function specifications

vars == <<now, fs, pc, input, filepath, final_path, raw_text, analysis_text,
          pdf_filename, response, trace, failed, sweep_failed, probe>>

reqvars == <<pc, input, filepath, final_path, raw_text, analysis_text,
             pdf_filename, response, trace, failed, sweep_failed>>

---------------------------------------------------------------------------
(* Bounds and program constants *)

TicksPerSec == 2
MaxTicks == 2
MaxBlocks == 3
SizeSpread == 2

RETENTION_SECONDS == 600
max_size_kb == 200
BYTES_PER_KB == 1024
HTTP_OK == 200
HTTP_BAD_REQUEST == 400
HTTP_SERVER_ERROR == 500

UPLOAD_FOLDER == "/tmp/uploads"
OUTPUT_FOLDER == "/tmp/outputs"
Folders == <<UPLOAD_FOLDER, OUTPUT_FOLDER>>

\* the instant the model starts at: second 1000
T0 == 1000 * TicksPerSec

Reqs == {"r1", "r2"}

---------------------------------------------------------------------------
(* File names and files *)

NoName == [prefix |-> "", ts |-> 0, base |-> ""]

\* int(time.time())
int_time(t) == t \div TicksPerSec

\* f"{int(time.time())}_{file.filename}"
UploadName(t, filename) == [prefix |-> "", ts |-> int_time(t), base |-> filename]

\* f"compressed_{os.path.basename(image_path)}"
CompressedName(name) == [name EXCEPT !.prefix = "compressed_"]

\* f"Report_Analysis_{int(time.time())}.pdf"
PdfName(t) == [prefix |-> "Report_Analysis_", ts |-> int_time(t), base |-> ".pdf"]

File(name, mtime, size, data) ==
    [name |-> name, mtime |-> mtime, size |-> size, data |-> data]

Exists(dir, name) == \E f \in dir : f.name = name

Lookup(dir, name) == CHOOSE f \in dir : f.name = name

\* open(path, "wb") and write: the file of that name is created or replaced
WriteFile(dir, f) == {g \in dir : g.name # f.name} \cup {f}

UploadData(r) == [kind |-> "image", of |-> r]
CompressedData(d) == [d EXCEPT !.kind = "jpeg40"]
PdfData(analysis) == [kind |-> "pdf", of |-> analysis.of]

---------------------------------------------------------------------------
(* cleanup_old_files *)

\* os.stat(f_path).st_mtime < now - 600
Expired_off(mtime, t) == mtime <= t - RETENTION_SECONDS * TicksPerSec
Expired(mtime, t) == mtime < t - RETENTION_SECONDS * TicksPerSec

\* the orders os.listdir may return a folder's files in
Listings(dir) ==
    {s \in [1..Cardinality(dir) -> dir] : \A i, j \in DOMAIN s : i # j => s[i] # s[j]}

\* One folder's loop: the files of listing up to position stop - 1 are
\* stat-ed and, when expired, removed.
SweepFolder(dir, listing, t, stop) ==
    dir \ {listing[i] : i \in {j \in DOMAIN listing : j < stop /\ Expired(listing[j].mtime, t)}}

\* A plan is what the file system does to one sweep: the order each folder is
\* listed in and the place of the first OSError.  plan.at is "none", or
\* "listdir"/"file" with plan.folder the index in Folders and plan.idx the
\* position in that folder's listing of the file whose stat or remove raises.
Plans(files) ==
    {[lists |-> <<lu, lo>>, at |-> "none", folder |-> 0, idx |-> 0] :
        lu \in Listings(files[UPLOAD_FOLDER]), lo \in Listings(files[OUTPUT_FOLDER])}
    \cup
    {[lists |-> <<lu, lo>>, at |-> "listdir", folder |-> k, idx |-> 0] :
        lu \in Listings(files[UPLOAD_FOLDER]), lo \in Listings(files[OUTPUT_FOLDER]),
        k \in {1, 2}}
    \cup
    UNION {{[lists |-> <<lu, lo>>, at |-> "file", folder |-> 1, idx |-> i] : i \in DOMAIN lu}
           \cup
           {[lists |-> <<lu, lo>>, at |-> "file", folder |-> 2, idx |-> i] : i \in DOMAIN lo} :
        lu \in Listings(files[UPLOAD_FOLDER]), lo \in Listings(files[OUTPUT_FOLDER])}

\* How far the loop over folder k gets under the plan: past the end, or to the
\* failing position; 0 when an earlier folder already raised.
StopAt_percall(plan, k) ==
    IF plan.at = "file" /\ plan.folder = k THEN Len(plan.lists[k]) + 1
    ELSE IF plan.at = "listdir" /\ plan.folder = k THEN 0
    ELSE Len(plan.lists[k]) + 1
StopAt(plan, k) ==
    IF plan.at = "none" THEN Len(plan.lists[k]) + 1
    ELSE IF plan.folder < k THEN 0
    ELSE IF plan.folder > k THEN Len(plan.lists[k]) + 1
    ELSE IF plan.at = "listdir" THEN 0
    ELSE plan.idx

cleanup_old_files(files, t, plan) ==
    [fs |-> [d \in DOMAIN files |->
                LET k == CHOOSE i \in DOMAIN Folders : Folders[i] = d
                IN  SweepFolder(files[d], plan.lists[k], t, StopAt(plan, k))],
     failed |-> plan.at # "none"]

\* except Exception as e: print(...)  -- the handler goes on either way
AfterSweep_raise(sweepFailed) == IF sweepFailed THEN "crash" ELSE "validate"
AfterSweep(sweepFailed) == "validate"

---------------------------------------------------------------------------
(* optimize_image *)

MaxBytes == max_size_kb * BYTES_PER_KB

\* file_size <= max_size_kb, with file_size = os.path.getsize(image_path) / 1024
SmallEnough_strict(size) == size < max_size_kb * BYTES_PER_KB
SmallEnough(size) == size <= max_size_kb * BYTES_PER_KB

\* enc is what PIL does with the image: enc.ok is whether Image.open and
\* img.save succeed, enc.size the size of the encoded file.
optimize_image(files, image_path, t, enc) ==
    IF ~Exists(files[UPLOAD_FOLDER], image_path)
    THEN [ok |-> FALSE, path |-> NoName, fs |-> files, msg |-> <<"No such file">>]
    ELSE LET src == Lookup(files[UPLOAD_FOLDER], image_path)
         IN  IF SmallEnough(src.size)
             THEN [ok |-> TRUE, path |-> image_path, fs |-> files, msg |-> <<>>]
             ELSE IF ~enc.ok
             THEN [ok |-> FALSE, path |-> NoName, fs |-> files,
                   msg |-> <<"cannot identify image file">>]
             ELSE LET optimized_path == CompressedName(image_path)
                      out == File(optimized_path, t, enc.size, CompressedData(src.data))
                  IN  [ok |-> TRUE, path |-> optimized_path,
                       fs |-> [files EXCEPT ![UPLOAD_FOLDER] = WriteFile(@, out)],
                       msg |-> <<>>]

---------------------------------------------------------------------------
(* get_ocr_text *)

IsSpace(c) == c \in {" ", "\n", "\t"}

RECURSIVE lstrip(_)
lstrip(s) == IF s = <<>> THEN <<>>
             ELSE IF IsSpace(Head(s)) THEN lstrip(Tail(s)) ELSE s

RECURSIVE rstrip(_)
rstrip(s) == IF s = <<>> THEN <<>>
             ELSE IF IsSpace(s[Len(s)]) THEN rstrip(SubSeq(s, 1, Len(s) - 1)) ELSE s

\* str.strip()
strip_left_only(s) == lstrip(s)
strip(s) == rstrip(lstrip(s))

\* " ".join(parts)
RECURSIVE join(_, _)
join(sep, parts) ==
    IF parts = <<>> THEN <<>>
    ELSE IF Len(parts) = 1 THEN parts[1]
    ELSE parts[1] \o sep \o join(sep, Tail(parts))

\* [block["text"].strip() for block in data if block["text"].strip()]
RECURSIVE stripped_nonempty(_)
stripped_nonempty(data) ==
    IF data = <<>> THEN <<>>
    ELSE IF strip(Head(data).text) # <<>>
         THEN <<strip(Head(data).text)>> \o stripped_nonempty(Tail(data))
         ELSE stripped_nonempty(Tail(data))

\* resp is the OCR service's answer: resp.status_code, resp.text (the body,
\* as tokens) and resp.json (the parsed list of blocks).
get_ocr_text(resp) ==
    IF resp.status_code # HTTP_OK
    THEN [ok |-> FALSE, text |-> <<>>, msg |-> <<"OCR API Error: ">> \o resp.text]
    ELSE [ok |-> TRUE, text |-> join(<<" ">>, stripped_nonempty(resp.json)), msg |-> <<>>]

---------------------------------------------------------------------------
(* The /analyze handler *)

NoAnalysis == [of |-> "nobody"]

\* response.content of llm.invoke(prompt): the interpreter's answer to the
\* prompt built from request r's text
Analysis(r) == [of |-> r]

NoResponse ==
    [status |-> 0, kind |-> "none", error |-> <<>>, analysis |-> NoAnalysis, pdf_url |-> NoName]

\* jsonify({"error": msg}), status
JsonError(status, msg) ==
    [status |-> status, kind |-> "json_error", error |-> msg,
     analysis |-> NoAnalysis, pdf_url |-> NoName]

\* jsonify({"success": True, "analysis": ..., "pdf_url": f"/download/{pdf_filename}"})
JsonSuccess(analysis, name) ==
    [status |-> HTTP_OK, kind |-> "json_success", error |-> <<>>,
     analysis |-> analysis, pdf_url |-> name]

\* what Flask answers when the view function lets an exception escape: its own
\* 500 page, not a JSON body
FrameworkError ==
    [status |-> HTTP_SERVER_ERROR, kind |-> "html_error", error |-> <<>>,
     analysis |-> NoAnalysis, pdf_url |-> NoName]

MSG_NO_FILE == <<"No file uploaded">>
MSG_NO_NAME == <<"No file selected">>
MSG_NO_TEXT == <<"Could not read text. Image might be blurry or not a medical report.">>

Filenames == {"a.png", "x/y.png"}

\* os.path.join(UPLOAD_FOLDER, filename) names a directory that does not exist
InMissingDir(filename) == filename = "x/y.png"

MainSizes == {MaxBytes, MaxBytes + 1}

Inputs ==
    {[has_file |-> FALSE, filename |-> "", size |-> 0],
     [has_file |-> TRUE, filename |-> "", size |-> 0]}
    \cup {[has_file |-> TRUE, filename |-> n, size |-> s] : n \in Filenames, s \in MainSizes}

NoInput == [has_file |-> FALSE, filename |-> "", size |-> 0]

NoFailure == [step |-> "none", msg |-> <<>>]

\* 'file' not in request.files
FileFieldMissing_off(inp) == FALSE
FileFieldMissing(inp) == ~inp.has_file

\* not raw_text
NoText_off(text) == FALSE
NoText(text) == text = <<>>

\* the answers of the OCR service the handler is run against
MainOcrResponses ==
    {[status_code |-> 401, text |-> <<"invalid", " ", "key">>, json |-> <<>>],
     [status_code |-> HTTP_OK, text |-> <<"[]">>, json |-> <<[text |-> <<" ">>]>>],
     [status_code |-> HTTP_OK, text |-> <<"[..]">>, json |-> <<[text |-> <<"A", " ">>]>>]}

MainEncodings == {[ok |-> FALSE, size |-> 0], [ok |-> TRUE, size |-> MaxBytes \div 2]}

\* No request is being handled.
ReqInit ==
    /\ pc = [r \in Reqs |-> "idle"]
    /\ input = [r \in Reqs |-> NoInput]
    /\ filepath = [r \in Reqs |-> NoName]
    /\ final_path = [r \in Reqs |-> NoName]
    /\ raw_text = [r \in Reqs |-> <<>>]
    /\ analysis_text = [r \in Reqs |-> NoAnalysis]
    /\ pdf_filename = [r \in Reqs |-> NoName]
    /\ response = [r \in Reqs |-> NoResponse]
    /\ trace = [r \in Reqs |-> <<>>]
    /\ failed = [r \in Reqs |-> NoFailure]
    /\ sweep_failed = [r \in Reqs |-> FALSE]

\* a file an earlier run of the service left behind, age ticks old at T0
Leftover(name, age) == File(name, T0 - age, 1, [kind |-> "left", of |-> "nobody"])

Retention == RETENTION_SECONDS * TicksPerSec

\* The service starts with the two folders made (os.makedirs, exist_ok) and
\* holding what earlier runs left in /tmp: here one upload just past the
\* retention window and one PDF exactly at it.
Init ==
    /\ now = T0
    /\ fs = [d \in {UPLOAD_FOLDER, OUTPUT_FOLDER} |->
                IF d = UPLOAD_FOLDER
                THEN {Leftover(UploadName(T0 - Retention - 1, "a.png"), Retention + 1)}
                ELSE {Leftover(PdfName(T0 - Retention), Retention)}]
    /\ ReqInit
    /\ probe = [fn |-> "none"]

\* the request is answered and analyze() returns
Respond(r, resp) ==
    /\ response' = [response EXCEPT ![r] = resp]
    /\ pc' = [pc EXCEPT ![r] = "done"]

\* except Exception as e: return jsonify({"error": str(e)}), 500
Caught(r, step, msg) ==
    /\ Respond(r, JsonError(HTTP_SERVER_ERROR, msg))
    /\ failed' = [failed EXCEPT ![r] = [step |-> step, msg |-> msg]]

\* an exception outside the try block leaves analyze()
Escaped(r, step, msg) ==
    /\ Respond(r, FrameworkError)
    /\ failed' = [failed EXCEPT ![r] = [step |-> step, msg |-> msg]]

Enter(r, step) == trace' = [trace EXCEPT ![r] = Append(@, step)]

\* a POST /analyze arrives
Receive(r) ==
    /\ pc[r] = "idle"
    /\ \E inp \in Inputs : input' = [input EXCEPT ![r] = inp]
    /\ pc' = [pc EXCEPT ![r] = "cleanup"]
    /\ UNCHANGED <<now, fs, filepath, final_path, raw_text, analysis_text,
                   pdf_filename, response, trace, failed, sweep_failed, probe>>

\* cleanup_old_files()
Cleanup(r) ==
    /\ pc[r] = "cleanup"
    /\ Enter(r, "cleanup")
    /\ \E plan \in Plans(fs) :
          LET res == cleanup_old_files(fs, now, plan)
          IN  /\ fs' = res.fs
              /\ sweep_failed' = [sweep_failed EXCEPT ![r] = res.failed]
              /\ IF AfterSweep(res.failed) = "crash"
                 THEN Escaped(r, "cleanup", <<"cleanup error">>)
                 ELSE /\ pc' = [pc EXCEPT ![r] = AfterSweep(res.failed)]
                      /\ UNCHANGED <<response, failed>>
    /\ UNCHANGED <<now, input, filepath, final_path, raw_text, analysis_text,
                   pdf_filename, probe>>

\* the two validation guards
Validate(r) ==
    /\ pc[r] = "validate"
    /\ Enter(r, "validate")
    /\ IF FileFieldMissing(input[r])
       THEN Respond(r, JsonError(HTTP_BAD_REQUEST, MSG_NO_FILE))
       ELSE IF input[r].filename = ""
       THEN Respond(r, JsonError(HTTP_BAD_REQUEST, MSG_NO_NAME))
       ELSE pc' = [pc EXCEPT ![r] = "save"] /\ UNCHANGED response
    /\ UNCHANGED <<now, fs, input, filepath, final_path, raw_text, analysis_text,
                   pdf_filename, failed, sweep_failed, probe>>

\* filename = f"{int(time.time())}_{file.filename}"; file.save(filepath)
Save(r) ==
    /\ pc[r] = "save"
    /\ Enter(r, "save")
    /\ LET name == UploadName(now, input[r].filename)
       IN  \E disk_ok \in BOOLEAN :
              IF disk_ok /\ ~InMissingDir(input[r].filename)
              THEN /\ fs' = [fs EXCEPT ![UPLOAD_FOLDER] =
                                WriteFile(@, File(name, now, input[r].size, UploadData(r)))]
                   /\ filepath' = [filepath EXCEPT ![r] = name]
                   /\ pc' = [pc EXCEPT ![r] = "optimize"]
                   /\ UNCHANGED <<response, failed>>
              ELSE /\ Escaped(r, "save", <<"No such file or directory">>)
                   /\ UNCHANGED <<fs, filepath>>
    /\ UNCHANGED <<now, input, final_path, raw_text, analysis_text,
                   pdf_filename, sweep_failed, probe>>

\* final_path = optimize_image(filepath)
Optimize(r) ==
    /\ pc[r] = "optimize"
    /\ Enter(r, "optimize")
    /\ \E enc \in MainEncodings :
          LET res == optimize_image(fs, filepath[r], now, enc)
          IN  IF res.ok
              THEN /\ fs' = res.fs
                   /\ final_path' = [final_path EXCEPT ![r] = res.path]
                   /\ pc' = [pc EXCEPT ![r] = "ocr"]
                   /\ UNCHANGED <<response, failed>>
              ELSE /\ Caught(r, "optimize", res.msg)
                   /\ UNCHANGED <<fs, final_path>>
    /\ UNCHANGED <<now, input, filepath, raw_text, analysis_text,
                   pdf_filename, sweep_failed, probe>>

\* raw_text = get_ocr_text(final_path); if not raw_text: return ..., 400
Ocr(r) ==
    /\ pc[r] = "ocr"
    /\ Enter(r, "ocr")
    /\ \E resp \in MainOcrResponses :
          LET res == get_ocr_text(resp)
          IN  IF ~res.ok
              THEN Caught(r, "ocr", res.msg) /\ UNCHANGED raw_text
              ELSE /\ raw_text' = [raw_text EXCEPT ![r] = res.text]
                   /\ UNCHANGED failed
                   /\ IF NoText(res.text)
                      THEN Respond(r, JsonError(HTTP_BAD_REQUEST, MSG_NO_TEXT))
                      ELSE pc' = [pc EXCEPT ![r] = "interpret"] /\ UNCHANGED response
    /\ UNCHANGED <<now, fs, input, filepath, final_path, analysis_text,
                   pdf_filename, sweep_failed, probe>>

\* response = llm.invoke(prompt); analysis_text = response.content
Interpret(r) ==
    /\ pc[r] = "interpret"
    /\ Enter(r, "interpret")
    /\ \E llm_ok \in BOOLEAN :
          IF llm_ok
          THEN /\ analysis_text' = [analysis_text EXCEPT ![r] = Analysis(r)]
               /\ pc' = [pc EXCEPT ![r] = "render"]
               /\ UNCHANGED <<response, failed>>
          ELSE /\ Caught(r, "interpret", <<"llm request failed">>)
               /\ UNCHANGED analysis_text
    /\ UNCHANGED <<now, fs, input, filepath, final_path, raw_text,
                   pdf_filename, sweep_failed, probe>>

\* pdf_filename = f"Report_Analysis_{int(time.time())}.pdf"
\* generate_pdf(analysis_text, pdf_filename); return jsonify({...})
Render(r) ==
    /\ pc[r] = "render"
    /\ Enter(r, "render")
    /\ LET name == PdfName(now)
       IN  \E pdf_ok \in BOOLEAN :
              IF pdf_ok
              THEN /\ fs' = [fs EXCEPT ![OUTPUT_FOLDER] =
                                WriteFile(@, File(name, now, 1, PdfData(analysis_text[r])))]
                   /\ pdf_filename' = [pdf_filename EXCEPT ![r] = name]
                   /\ Respond(r, JsonSuccess(analysis_text[r], name))
                   /\ UNCHANGED failed
              ELSE /\ Caught(r, "render", <<"pdf output failed">>)
                   /\ UNCHANGED <<fs, pdf_filename>>
    /\ UNCHANGED <<now, input, filepath, final_path, raw_text, analysis_text,
                   sweep_failed, probe>>

\* the clock advances
Tick ==
    /\ now < T0 + MaxTicks
    /\ now' = now + 1
    /\ UNCHANGED <<fs, reqvars, probe>>

Next ==
    \/ \E r \in Reqs : Receive(r)
    \/ \E r \in Reqs : Cleanup(r)
    \/ \E r \in Reqs : Validate(r)
    \/ \E r \in Reqs : Save(r)
    \/ \E r \in Reqs : Optimize(r)
    \/ \E r \in Reqs : Ocr(r)
    \/ \E r \in Reqs : Interpret(r)
    \/ \E r \in Reqs : Render(r)
    \/ Tick

Spec == Init /\ [][Next]_vars

---------------------------------------------------------------------------
(* Properties of the handler *)

Range(seq) == {seq[i] : i \in DOMAIN seq}

Done(r) == pc[r] = "done"

FullOrder == <<"cleanup", "validate", "save", "optimize", "ocr", "interpret", "render">>

IsPrefix(s, t) == Len(s) <= Len(t) /\ SubSeq(t, 1, Len(s)) = s

\* the files that hold request r's upload or analysis, wherever they are
FilesOf(r) == {f \in fs[UPLOAD_FOLDER] \cup fs[OUTPUT_FOLDER] : f.data.of = r}

\* get_ocr_text returned the empty string to request r
OcrReturnedEmpty(r) ==
    "ocr" \in Range(trace[r]) /\ failed[r].step # "ocr" /\ raw_text[r] = <<>>

\* C1: a request whose OCR call returned the empty string is answered 400
\* with the "Could not read text" message, and in it the interpreter is never
\* invoked and no PDF is rendered.
C1_EmptyOcrText ==
    \A r \in Reqs :
        OcrReturnedEmpty(r) =>
            /\ Done(r)
            /\ response[r] = JsonError(HTTP_BAD_REQUEST, MSG_NO_TEXT)
            /\ "interpret" \notin Range(trace[r])
            /\ "render" \notin Range(trace[r])
            /\ pdf_filename[r] = NoName
            /\ ~\E f \in fs[OUTPUT_FOLDER] : f.data.of = r

C1_Witness ==
    \E r \in Reqs : OcrReturnedEmpty(r) /\ Done(r) /\ response[r].status = HTTP_BAD_REQUEST

\* C2: the 200 success payload is returned exactly when every step completed,
\* in the order save, optimize, OCR, interpret, render; a failing step is the
\* last step of its request, no step runs twice, and the failing request is
\* answered with a JSON error payload.
C2_AllOrNothing ==
    \A r \in Reqs :
        /\ IsPrefix(trace[r], FullOrder)
        /\ Done(r) => (response[r].kind = "json_success"
                         <=> (trace[r] = FullOrder /\ failed[r].step = "none"))
        /\ failed[r].step # "none" =>
              /\ Done(r)
              /\ trace[r][Len(trace[r])] = failed[r].step
              /\ response[r].kind = "json_error"

\* C3: past the two validation guards, every failure other than empty OCR
\* text is answered 500 with the JSON body {"error": <the exception's message>}.
C3_FailureIs500Json ==
    \A r \in Reqs :
        (Done(r) /\ failed[r].step \in {"save", "optimize", "ocr", "interpret", "render"})
            => response[r] = JsonError(HTTP_SERVER_ERROR, failed[r].msg)

\* request r has been through the guards with a form the guards reject
Rejected(r, inp) == input[r] = inp /\ "validate" \in Range(trace[r])

\* C4: no file field is answered 400 {"error": "No file uploaded"}, an empty
\* filename 400 {"error": "No file selected"}; neither request writes a file
\* or calls the OCR service or the interpreter.
C4_ValidationGuards ==
    \A r \in Reqs :
        /\ (pc[r] # "idle" /\ (~input[r].has_file \/ input[r].filename = "")) =>
              /\ Range(trace[r]) \subseteq {"cleanup", "validate"}
              /\ FilesOf(r) = {}
        /\ \A inp \in Inputs :
              Rejected(r, inp) =>
                 /\ ~inp.has_file => response[r] = JsonError(HTTP_BAD_REQUEST, MSG_NO_FILE)
                 /\ (inp.has_file /\ inp.filename = "") =>
                        response[r] = JsonError(HTTP_BAD_REQUEST, MSG_NO_NAME)

C4_Witness ==
    \E r1, r2 \in Reqs :
        /\ Done(r1) /\ ~input[r1].has_file /\ response[r1].error = MSG_NO_FILE
        /\ Done(r2) /\ input[r2].has_file /\ input[r2].filename = ""
        /\ response[r2].error = MSG_NO_NAME

\* what of a response does not depend on the clock
Outcome(r) == [status |-> response[r].status, kind |-> response[r].kind,
               error |-> response[r].error]

Occurrences(seq, x) == Cardinality({i \in DOMAIN seq : seq[i] = x})

\* C6: the sweep runs exactly once, first, in every request, also in those the
\* guards reject; a sweep that raised is never the request's failure, and two
\* requests with the same form and the same step outcomes are answered alike
\* whether or not their sweeps raised.
C6_SweepFirstAndSwallowed ==
    /\ \A r \in Reqs :
          /\ pc[r] \notin {"idle", "cleanup"} =>
                /\ trace[r][1] = "cleanup"
                /\ Occurrences(trace[r], "cleanup") = 1
          /\ failed[r].step # "cleanup"
          /\ Done(r) => (Len(trace[r]) >= 2 /\ trace[r][2] = "validate")
    /\ \A r1, r2 \in Reqs :
          (/\ Done(r1) /\ Done(r2)
           /\ input[r1] = input[r2]
           /\ trace[r1] = trace[r2]
           /\ failed[r1] = failed[r2]
           /\ raw_text[r1] = raw_text[r2]) => Outcome(r1) = Outcome(r2)

C6_Witness ==
    \E r1, r2 \in Reqs :
        /\ Done(r1) /\ Done(r2)
        /\ sweep_failed[r1] /\ ~sweep_failed[r2]
        /\ response[r1].kind = "json_success" /\ response[r2].kind = "json_success"
        /\ input[r1] = input[r2]

\* the file of that name in the folder, when there is one, is request r's
HoldsOwn(folder, name, r) ==
    \A f \in fs[folder] : f.name = name => f.data.of = r

\* C7: the upload, the compressed image and the PDF a request wrote are never
\* overwritten by another request, so the file behind a success response's
\* pdf_url holds that request's analysis.
C7_NoSharedFiles ==
    \A r \in Reqs :
        /\ filepath[r] # NoName => HoldsOwn(UPLOAD_FOLDER, filepath[r], r)
        /\ final_path[r] # NoName => HoldsOwn(UPLOAD_FOLDER, final_path[r], r)
        /\ pdf_filename[r] # NoName => HoldsOwn(OUTPUT_FOLDER, pdf_filename[r], r)
        /\ response[r].kind = "json_success" =>
              HoldsOwn(OUTPUT_FOLDER, response[r].pdf_url, r)

\* (for reading the C2/C3 traces) the same two statements with the save step
\* left out hold
C2_ExceptSave ==
    \A r \in Reqs :
        /\ IsPrefix(trace[r], FullOrder)
        /\ Done(r) => (response[r].kind = "json_success"
                         <=> (trace[r] = FullOrder /\ failed[r].step = "none"))
        /\ failed[r].step \notin {"none", "save"} =>
              /\ Done(r)
              /\ trace[r][Len(trace[r])] = failed[r].step
              /\ response[r].kind = "json_error"

C3_ExceptSave ==
    \A r \in Reqs :
        (Done(r) /\ failed[r].step \in {"optimize", "ocr", "interpret", "render"})
            => response[r] = JsonError(HTTP_SERVER_ERROR, failed[r].msg)

---------------------------------------------------------------------------
(* cleanup_old_files on its own: one sweep over folders of files of every age
   around the retention window *)

\* the files the sweep is run over: 601 s, 600 s and 599 s old at T0 (and
\* one tick older at T0 + 1)
SweepUploads ==
    {Leftover(UploadName(T0 - Retention - TicksPerSec, "a.png"), Retention + TicksPerSec),
     Leftover(UploadName(T0 - Retention, "a.png"), Retention),
     Leftover(UploadName(T0 - Retention + TicksPerSec, "b.png"), Retention - TicksPerSec)}

SweepOutputs ==
    {Leftover(PdfName(T0 - Retention - TicksPerSec), Retention + TicksPerSec),
     Leftover(PdfName(T0 - Retention - 1), Retention + 1),
     Leftover(PdfName(T0 - Retention + TicksPerSec), Retention - TicksPerSec)}

InitSweep ==
    /\ now \in {T0, T0 + 1}
    /\ \E u \in SUBSET SweepUploads, o \in SUBSET SweepOutputs :
          fs = [d \in {UPLOAD_FOLDER, OUTPUT_FOLDER} |-> IF d = UPLOAD_FOLDER THEN u ELSE o]
    /\ ReqInit
    /\ probe = [fn |-> "none", before |-> <<>>, plan |-> <<>>, failed |-> FALSE]

\* cleanup_old_files() is called once
SweepCall ==
    /\ probe.fn = "none"
    /\ \E plan \in Plans(fs) :
          LET res == cleanup_old_files(fs, now, plan)
          IN  /\ fs' = res.fs
              /\ probe' = [fn |-> "cleanup_old_files", before |-> fs, plan |-> plan,
                           failed |-> res.failed]
    /\ UNCHANGED <<now, reqvars>>

NextSweep == SweepCall

SpecSweep == InitSweep /\ [][NextSweep]_vars

Swept == probe.fn = "cleanup_old_files"

\* the age of file f at the sweep's clock reading, in ticks
Age(f) == now - f.mtime

\* C5: a sweep that meets no filesystem error removes from both folders
\* exactly the files more than 600 seconds old: one 601 s old goes, one 599 s
\* old and one exactly 600 s old stay.
C5_RemovesExactlyExpired ==
    (Swept /\ ~probe.failed) =>
        \A d \in {UPLOAD_FOLDER, OUTPUT_FOLDER} :
            /\ fs[d] \subseteq probe.before[d]
            /\ \A f \in probe.before[d] :
                  /\ f \notin fs[d] <=> Age(f) > 600 * TicksPerSec
                  /\ Age(f) = 601 * TicksPerSec => f \notin fs[d]
                  /\ Age(f) = 599 * TicksPerSec => f \in fs[d]
                  /\ Age(f) = 600 * TicksPerSec => f \in fs[d]

C5_Witness ==
    /\ Swept /\ ~probe.failed
    /\ \E f \in probe.before[UPLOAD_FOLDER] : Age(f) = 601 * TicksPerSec /\ f \notin fs[UPLOAD_FOLDER]
    /\ \E f \in probe.before[UPLOAD_FOLDER] : Age(f) = 600 * TicksPerSec /\ f \in fs[UPLOAD_FOLDER]
    /\ \E f \in probe.before[UPLOAD_FOLDER] : Age(f) = 599 * TicksPerSec /\ f \in fs[UPLOAD_FOLDER]
    /\ \E f \in probe.before[OUTPUT_FOLDER] : f \notin fs[OUTPUT_FOLDER]

\* the files the sweep had stat-ed (and removed when expired) before the
\* error, folder by folder
ScannedBefore(plan, k) ==
    IF k < plan.folder THEN Range(plan.lists[k])
    ELSE IF k = plan.folder /\ plan.at = "file"
         THEN {plan.lists[k][i] : i \in 1..(plan.idx - 1)}
         ELSE {}

\* C10: the first filesystem error ends the sweep: no file at or after the
\* failing place in the scan order is removed, however old, while the expired
\* files scanned before it are gone.
C10_FirstErrorEndsSweep ==
    (Swept /\ probe.failed) =>
        \A k \in DOMAIN Folders :
            LET d == Folders[k]
                seen == ScannedBefore(probe.plan, k)
            IN  /\ \A f \in probe.before[d] \ seen : f \in fs[d]
                /\ \A f \in seen : f \in fs[d] <=> Age(f) <= 600 * TicksPerSec
                /\ fs[d] \subseteq probe.before[d]

C10_Witness ==
    /\ Swept /\ probe.failed
    /\ probe.plan.folder = 1 /\ probe.plan.at = "file"
    /\ \E f \in ScannedBefore(probe.plan, 1) : f \notin fs[UPLOAD_FOLDER]
    /\ \E f \in fs[UPLOAD_FOLDER] \ ScannedBefore(probe.plan, 1) :
          Age(f) > 600 * TicksPerSec /\ f # probe.plan.lists[1][probe.plan.idx]
    /\ \E f \in fs[OUTPUT_FOLDER] : Age(f) > 600 * TicksPerSec

---------------------------------------------------------------------------
(* optimize_image on its own: one call on an upload of every size around the
   threshold *)

OptSizes == {0} \cup (MaxBytes - SizeSpread .. MaxBytes + SizeSpread) \cup {2 * MaxBytes}

OptEncodings ==
    {[ok |-> FALSE, size |-> 0], [ok |-> TRUE, size |-> MaxBytes \div 2],
     [ok |-> TRUE, size |-> MaxBytes]}

InitOptimize ==
    /\ now \in {T0, T0 + 1}
    /\ \E n \in {"a.png", "b.png"}, size \in OptSizes, stale \in BOOLEAN :
          LET name == UploadName(T0, n)
              upload == File(name, T0, size, UploadData("r1"))
              old == IF stale THEN {Leftover(CompressedName(name), 1)} ELSE {}
          IN  /\ fs = [d \in {UPLOAD_FOLDER, OUTPUT_FOLDER} |->
                          IF d = UPLOAD_FOLDER
                          THEN {upload, Leftover(UploadName(T0, "c.png"), 0)} \cup old
                          ELSE {}]
              /\ probe = [fn |-> "none", image_path |-> name, before |-> <<>>,
                          ok |-> FALSE, path |-> NoName]
    /\ ReqInit

\* optimize_image(image_path) is called once
OptimizeCall ==
    /\ probe.fn = "none"
    /\ \E enc \in OptEncodings :
          LET res == optimize_image(fs, probe.image_path, now, enc)
          IN  /\ fs' = res.fs
              /\ probe' = [probe EXCEPT !.fn = "optimize_image", !.before = fs,
                                        !.ok = res.ok, !.path = res.path]
    /\ UNCHANGED <<now, reqvars>>

NextOptimize == OptimizeCall

SpecOptimize == InitOptimize /\ [][NextOptimize]_vars

Optimized == probe.fn = "optimize_image"

\* the byte size of the file optimize_image was called on
InputSize == Lookup(probe.before[UPLOAD_FOLDER], probe.image_path).size

\* the name the claim gives the new file: compressed_<basename of the input>
ExpectedCompressed ==
    [prefix |-> "compressed_", ts |-> probe.image_path.ts, base |-> probe.image_path.base]

---------------------------------------------------------------------------
(* get_ocr_text on its own: one call on every answer of the OCR service *)

BlockTexts ==
    {<<>>, <<" ">>, <<"A", " ">>, <<"B">>, <<"\n", "B", " ">>, <<"A", " ", "B">>}

Blocks == {[text |-> t] : t \in BlockTexts}

BlockLists == UNION {[1..n -> Blocks] : n \in 0..MaxBlocks}

OcrBodies == {<<>>, <<"invalid", " ", "key">>, <<"quota">>}

OcrResponses ==
    {[status_code |-> HTTP_OK, text |-> <<"json">>, json |-> bl] : bl \in BlockLists}
    \cup {[status_code |-> c, text |-> b, json |-> <<>>] : c \in {401, 500}, b \in OcrBodies}

InitOcr ==
    /\ now = T0
    /\ fs = [d \in {UPLOAD_FOLDER, OUTPUT_FOLDER} |-> {}]
    /\ ReqInit
    /\ \E resp \in OcrResponses :
          probe = [fn |-> "none", resp |-> resp,
                   out |-> [ok |-> FALSE, text |-> <<>>, msg |-> <<>>]]

\* get_ocr_text(image_path) is called once and the service answers probe.resp
OcrCall ==
    /\ probe.fn = "none"
    /\ probe' = [probe EXCEPT !.fn = "get_ocr_text", !.out = get_ocr_text(probe.resp)]
    /\ UNCHANGED <<now, fs, reqvars>>

NextOcr == OcrCall

SpecOcr == InitOcr /\ [][NextOcr]_vars

\* a text's non-blank core: from its first to its last non-whitespace character
NonSpaceAt(t) == {i \in DOMAIN t : ~IsSpace(t[i])}
SetMin(S) == CHOOSE x \in S : \A y \in S : x <= y
SetMax(S) == CHOOSE x \in S : \A y \in S : x >= y
Core(t) == IF NonSpaceAt(t) = {} THEN <<>>
           ELSE SubSeq(t, SetMin(NonSpaceAt(t)), SetMax(NonSpaceAt(t)))

RECURSIVE SumOver(_, _)
SumOver(S, bl) ==
    IF S = {} THEN 0
    ELSE LET i == CHOOSE x \in S : TRUE
         IN  Len(Core(bl[i].text)) + 1 + SumOver(S \ {i}, bl)

\* out is the cores of the non-blank blocks of bl, in order, one space between
\* neighbours: each core sits at the offset its predecessors leave
IsSpaceJoined(out, bl) ==
    LET kept == {i \in DOMAIN bl : NonSpaceAt(bl[i].text) # {}}
        Offset(i) == SumOver({j \in kept : j < i}, bl)
    IN  /\ Len(out) = IF kept = {} THEN 0 ELSE SumOver(kept, bl) - 1
        /\ \A i \in kept :
              /\ SubSeq(out, Offset(i) + 1, Offset(i) + Len(Core(bl[i].text))) = Core(bl[i].text)
              /\ i # SetMax(kept) => out[Offset(i) + Len(Core(bl[i].text)) + 1] = " "

Contains(msg, part) ==
    \E i \in 1..(Len(msg) - Len(part) + 1) : SubSeq(msg, i, i + Len(part) - 1) = part

OcrCalled == probe.fn = "get_ocr_text"

ExampleBlocks == <<[text |-> <<"A", " ">>], [text |-> <<>>], [text |-> <<"B">>]>>

\* C9: on a 200 answer get_ocr_text returns the trimmed non-blank block texts
\* in order, joined by single spaces (["A ", "", "B"] gives "A B", no
\* non-blank block gives ""); on any other status it returns no text and
\* raises with a message that contains the response body.
C9_OcrText ==
    OcrCalled =>
        /\ probe.resp.status_code = 200 =>
              /\ probe.out.ok
              /\ IsSpaceJoined(probe.out.text, probe.resp.json)
              /\ probe.resp.json = ExampleBlocks => probe.out.text = <<"A", " ", "B">>
              /\ (\A i \in DOMAIN probe.resp.json : NonSpaceAt(probe.resp.json[i].text) = {})
                    => probe.out.text = <<>>
        /\ probe.resp.status_code # 200 =>
              /\ ~probe.out.ok
              /\ probe.out.text = <<>>
              /\ Contains(probe.out.msg, probe.resp.text)
              /\ Len(probe.out.msg) > Len(probe.resp.text)

C9_Witness ==
    /\ OcrCalled
    /\ probe.resp.status_code = 200
    /\ probe.resp.json = ExampleBlocks
    /\ probe.out.text = <<"A", " ", "B">>

===========================================================================
